---- MODULE Spec2Model ----
\* Model of project2-card-mover (src/src/main.rs): a warp server whose single
\* handler, handle_webhook, reacts to a "reordered" project-item event by
\* querying the item's field values, and closes the linked issue when the
\* item's Status is Done.
EXTENDS Integers, Sequences, FiniteSets, TLC

\* ---------------------------------------------------------------- bounds
\* Longest fieldValues.nodes list a field-values response carries.
MaxNodes == 2

\* Longest identifier, in words, handed to a query builder on its own.
MaxIdLen == 2

\* Number of webhook requests the server handles concurrently.
NumRequests == 2

\* ------------------------------------------------------- JSON values
\* serde_json::Value, restricted to the shapes the handler distinguishes.
\* JMissing is "no such key" (Value::get returned None); indexing with [..]
\* turns a missing key into JNull.
JMissing == [tag |-> "missing", str |-> "", num |-> 0]
JNull == [tag |-> "null", str |-> "", num |-> 0]
JStr(s) == [tag |-> "string", str |-> s, num |-> 0]
JNum(n) == [tag |-> "number", str |-> "", num |-> n]

\* Option<T>: None is the empty sequence, Some(x) the one-element sequence.
None == <<>>
Some(x) == <<x>>

\* Value::as_str: Some only for a JSON string.
as_str(v) == IF v.tag = "string" THEN Some(v.str) ELSE None

\* Value::as_u64: Some only for a number that is a non-negative integer.
as_u64(v) == IF v.tag = "number" /\ v.num >= 0 THEN Some(v.num) ELSE None

\* ------------------------------------------------------- query builders
\* Text is a sequence of symbols: the words and punctuation marks of the
\* query documents (white space left out), and the words of an identifier.
Placeholder1 == << "$", "nodeId" >>
Placeholder2 == << "$", "issueId" >>

\* `field { ... on ProjectV2FieldCommon { name } }` (lines 37-41, 45-49, 53-57).
FieldFragment ==
    << "field", "{", "...", "on", "ProjectV2FieldCommon", "{", "name", "}", "}" >>

\* `assignees(first: 10) { nodes { login } }` (lines 71-75, 80-84).
AssigneesFragment ==
    << "assignees", "(", "first", ":", "10", ")", "{", "nodes", "{", "login", "}", "}" >>

\* The template of lines 28-90.
FieldValuesTemplate ==
    << "query", "{", "node", "(", "id", ":", "\"" >> \o Placeholder1 \o << "\"", ")", "{",
       "...", "on", "ProjectV2Item", "{", "id",
       "fieldValues", "(", "first", ":", "8", ")", "{", "nodes", "{",
       "...", "on", "ProjectV2ItemFieldTextValue", "{", "text" >> \o FieldFragment \o << "}",
       "...", "on", "ProjectV2ItemFieldDateValue", "{", "date" >> \o FieldFragment \o << "}",
       "...", "on", "ProjectV2ItemFieldSingleSelectValue", "{", "name" >>
       \o FieldFragment \o << "}", "}", "}",
       "content", "{",
       "...", "on", "Issue", "{", "id", "title",
       "repository", "{", "name", "owner", "{", "login", "}", "}" >>
       \o AssigneesFragment \o << "}",
       "...", "on", "PullRequest", "{", "id", "title" >> \o AssigneesFragment \o << "}",
       "}", "}", "}", "}" >>

\* The template of lines 95-103.
IssueNumberTemplate ==
    << "query", "{", "node", "(", "id", ":", "\"" >> \o Placeholder2 \o << "\"", ")", "{",
       "...", "on", "Issue", "{", "number", "}", "}", "}" >>

\* The pattern `from` occurs in s at position i.
MatchesAt(s, from, i) ==
    /\ i + Len(from) - 1 <= Len(s)
    /\ \A k \in 1..Len(from) : s[i + k - 1] = from[k]

\* The positions from i on where `from` occurs in s.
MatchesFrom(s, from, i) == {j \in i..Len(s) : MatchesAt(s, from, j)}

\* The least element of a non-empty set of positions.
Least(S) == CHOOSE j \in S : \A k \in S : j <= k

\* Variant of ReplaceFrom that puts the replacement in twice.
RECURSIVE ReplaceFrom_twice(_, _, _, _)
ReplaceFrom_twice(s, from, to, i) ==
    LET M == MatchesFrom(s, from, i)
        j == Least(M)
    IN  IF M = {} THEN SubSeq(s, i, Len(s))
        ELSE SubSeq(s, i, j - 1) \o to \o to
             \o ReplaceFrom_twice(s, from, to, j + Len(from))

\* Variant of ReplaceFrom that leaves the replacement out.
RECURSIVE ReplaceFrom_dropped(_, _, _, _)
ReplaceFrom_dropped(s, from, to, i) ==
    LET M == MatchesFrom(s, from, i)
        j == Least(M)
    IN  IF M = {} THEN SubSeq(s, i, Len(s))
        ELSE SubSeq(s, i, j - 1) \o ReplaceFrom_dropped(s, from, to, j + Len(from))

\* str::replace from position i on: the non-overlapping occurrences of `from`
\* in s, found left to right, become `to`; the text put in is not scanned.
RECURSIVE ReplaceFrom(_, _, _, _)
ReplaceFrom(s, from, to, i) ==
    LET M == MatchesFrom(s, from, i)
        j == Least(M)
    IN  IF M = {} THEN SubSeq(s, i, Len(s))
        ELSE SubSeq(s, i, j - 1) \o to
             \o ReplaceFrom(s, from, to, j + Len(from))

\* str::replace (lines 91 and 104).
Replace(template, from, to) == ReplaceFrom(template, from, to, 1)

prepare_graphql_query(node_id) == Replace(FieldValuesTemplate, Placeholder1, node_id)

prepare_issue_number_query(issue_id) == Replace(IssueNumberTemplate, Placeholder2, issue_id)

\* The text of an identifier the handler holds: the empty text, or one word.
Symbols(str) == IF str = "" THEN << >> ELSE << str >>

\* ------------------------------------------------------- inputs
\* The environment variable GITHUB_TOKEN as the process finds it.
TokenEnvs ==
    { [state |-> "unset", value |-> ""],
      [state |-> "not_unicode", value |-> ""],
      [state |-> "set", value |-> "ghp_tok"] }

\* Variant of env_var that falls back to the default value when the variable
\* cannot be read.
env_var_or_default(e) == Some(e.value)

\* std::env::var: Ok(value) when present and valid unicode, Err otherwise.
env_var(e) == IF e.state = "set" THEN Some(e.value) ELSE None

\* Inbound payloads: the `action` key and the `projects_v2_item` key, which is
\* missing, present but no object, or an object with a `node_id` key.
Actions == {JMissing, JNum(1), JStr("reordered"), JStr("edited")}
NodeIds == {JMissing, JNull, JStr(""), JStr("PVTI_1")}
Payloads ==
    { [action |-> a, item |-> "object", node_id |-> n] : a \in Actions, n \in NodeIds }
    \cup { [action |-> a, item |-> i, node_id |-> JMissing] :
             a \in Actions, i \in {"missing", "nonobject"} }
NoPayload == [action |-> JMissing, item |-> "missing", node_id |-> JMissing]

\* payload.get("projects_v2_item").and_then(|item| item.get("node_id"))
get_node_id(p) ==
    IF p.item = "object" /\ p.node_id.tag # "missing" THEN Some(p.node_id) ELSE None

\* A field-value node: field.name and the three variant keys.
FieldValues == {"Done", "In Progress"}
TextNode(f, v) == [field_name |-> JStr(f), text |-> JStr(v), date |-> JNull, name |-> JNull]
DateNode(f, v) == [field_name |-> JStr(f), text |-> JNull, date |-> JStr(v), name |-> JNull]
SelectNode(f, v) == [field_name |-> JStr(f), text |-> JNull, date |-> JNull, name |-> JStr(v)]
EmptyNode == [field_name |-> JNull, text |-> JNull, date |-> JNull, name |-> JNull]
Nodes ==
    { TextNode("Status", v) : v \in FieldValues }
    \cup { DateNode("Status", v) : v \in FieldValues }
    \cup { SelectNode("Status", v) : v \in FieldValues }
    \cup { SelectNode("Priority", "Done"), EmptyNode }

NodeLists == UNION { [1..n -> Nodes] : n \in 0..MaxNodes }

\* The response to the field-values query: whether data.node.fieldValues.nodes
\* is an array (and which), and the content paths the handler reads.
ContentIds == {JNull, JNum(5), JStr("I_1")}
RepoNames == {JNull, JStr("card-mover")}
OwnerLogins == {JNull, JStr("octo")}
FieldValuesResponses ==
    [ is_array : {TRUE}, nodes : NodeLists,
      content_id : ContentIds, repo_name : RepoNames, owner_login : OwnerLogins ]
    \cup [ is_array : {FALSE}, nodes : {<<>>},
           content_id : ContentIds, repo_name : RepoNames, owner_login : OwnerLogins ]
NoJson ==
    [is_array |-> FALSE, nodes |-> <<>>, content_id |-> JNull,
     repo_name |-> JNull, owner_login |-> JNull]

\* The response to the issue-number query: data.node.number.
IssueNumbers == {JNull, JStr("42"), JNum(-1), JNum(42)}
IssueNumberResponses == [ number : IssueNumbers ]
NoIssueJson == [number |-> JNull]

\* Result<Value, reqwest::Error> of send_graphql_request.
Ok(v) == [ok |-> TRUE, value |-> v]
Err(v) == [ok |-> FALSE, value |-> v]

\* Result of the octocrab update(..).send(): Ok with some issue, or Err.
MutationResults == {"ok_closed", "ok_open", "err"}

\* ------------------------------------------------------- remote calls
GraphqlCall(q, tok) ==
    [kind |-> "graphql", query |-> q, token |-> tok,
     owner |-> "", repo |-> "", number |-> 0, state |-> ""]

\* Lines 187-198: the update request of the octocrab client built with the
\* token. The build is taken to succeed: the same token has by then been
\* accepted as a header value by two requests.
StateClosed == "closed"
MutationCall(o, r, n, tok) ==
    [kind |-> "mutation", query |-> <<>>, token |-> tok,
     owner |-> o, repo |-> r, number |-> n, state |-> StateClosed]

\* ------------------------------------------------------- state
VARIABLES
    started,      \* main has run: the server listens on /webhook
    GITHUB_TOKEN, \* the environment variable
    pc,           \* position of the current invocation of handle_webhook
    payload,      \* its argument
    github_token, \* its local of line 125
    json,         \* the first response (line 139)
    is_done,      \* its local of line 142
    issue_json,   \* the second response (line 168)
    calls,        \* the remote calls it has sent, in order
    outcomes,     \* what each of them came back with, in order
    reply,        \* what it returned to warp
    served,       \* an invocation before it has ended
    tasks,        \* the invocations of handle_webhook running concurrently
    qb            \* a query builder applied on its own: argument and result

vars == <<started, GITHUB_TOKEN, pc, payload, github_token, json, is_done,
          issue_json, calls, outcomes, reply, served, tasks, qb>>

\* The locals of one invocation of handle_webhook.
Task(c, p, tok, j, d, ij, cs, os, r) ==
    [pc |-> c, payload |-> p, github_token |-> tok, json |-> j, is_done |-> d,
     issue_json |-> ij, calls |-> cs, outcomes |-> os, reply |-> r]

\* No query builder has been applied.
QbIdle == [id |-> << >>, kind |-> "none", doc |-> << >>]

NoReply == [status |-> 0, body |-> ""]
Acknowledgment == [status |-> 200, body |-> "Webhook received"]

InitHandler ==
    /\ started = FALSE
    /\ GITHUB_TOKEN \in TokenEnvs
    /\ pc = "idle"
    /\ payload = NoPayload
    /\ github_token = ""
    /\ json = NoJson
    /\ is_done = FALSE
    /\ issue_json = NoIssueJson
    /\ calls = <<>>
    /\ outcomes = <<>>
    /\ reply = NoReply
    /\ served = FALSE

\* No request is being handled.
TaskIdle == Task("idle", NoPayload, "", NoJson, FALSE, NoIssueJson, << >>, << >>, NoReply)

Requests == 1..NumRequests

Init ==
    /\ InitHandler
    /\ tasks = [r \in Requests |-> TaskIdle]
    /\ qb = QbIdle

\* main: builds the route and serves; it does not read the environment.
Main ==
    /\ ~started
    /\ started' = TRUE
    /\ UNCHANGED <<GITHUB_TOKEN, pc, payload, github_token, json, is_done,
                   issue_json, calls, outcomes, reply, served, tasks, qb>>

\* Line 235: Ok("Webhook received").
ReturnOk ==
    /\ pc' = "responded"
    /\ reply' = Acknowledgment

\* A panic (expect / unwrap on Err): the request's task is aborted, nothing
\* is returned.
Panic ==
    /\ pc' = "panicked"
    /\ reply' = NoReply

\* Variant of ErrArm that unwraps the request's result.
ErrArm_unwrap == Panic

\* Variant of ErrArm that sends the request again.
ErrArm_retry ==
    /\ pc' = pc
    /\ reply' = NoReply

\* Lines 210-212 and 221-223: the Err arm of either match logs the error and
\* falls through to line 235.
ErrArm == ReturnOk

\* Variant of UnwrapSend that logs the failure instead of unwrapping.
UnwrapSend_caught(res) == ReturnOk

\* Lines 192-199: `let _ = ...send().await.unwrap()` panics on Err and drops
\* any Ok value, after which line 235 is reached.
UnwrapSend(res) == IF res = "err" THEN Panic ELSE ReturnOk

\* Option::unwrap_or_default on Option<&str>.
unwrap_or_default(o) == IF o = None THEN "" ELSE o[1]

\* Variant of IsReorderedWithNodeId that asks for a string node_id.
IsReorderedWithNodeId_stringOnly(p) ==
    /\ p.action.tag # "missing"
    /\ p.action = JStr("reordered")
    /\ get_node_id(p) # None
    /\ as_str(get_node_id(p)[1]) # None

\* Lines 127-134: the payload carries action == "reordered" and a node_id key.
IsReorderedWithNodeId(p) ==
    /\ p.action.tag # "missing"
    /\ p.action = JStr("reordered")
    /\ get_node_id(p) # None

\* Line 135: the identifier handed to the query builder.
node_id_str(p) == unwrap_or_default(as_str(get_node_id(p)[1]))

\* Variant of IsStatusDone that forgets the field's name.
IsStatusDone_anyField(field_value) == as_str(field_value.name) = Some("Done")

\* Variant of IsStatusDone that forgets the value.
IsStatusDone_anyValue(field_value) == as_str(field_value.field_name) = Some("Status")

\* Lines 147-148: the test of one field-value node.
IsStatusDone(field_value) ==
    /\ as_str(field_value.field_name) = Some("Status")
    /\ as_str(field_value.name) = Some("Done")

\* Variant of ScanFrom that looks at one node only.
ScanFrom_firstOnly(field_values, i) ==
    IF i > Len(field_values) THEN FALSE ELSE IsStatusDone(field_values[i])

\* Lines 146-153: the scan from index i on, stopping at the first match.
RECURSIVE ScanFrom(_, _)
ScanFrom(field_values, i) ==
    IF i > Len(field_values) THEN FALSE
    ELSE IF IsStatusDone(field_values[i]) THEN TRUE
    ELSE ScanFrom(field_values, i + 1)

\* Lines 142-154: is_done for a field-values response.
ComputeIsDone(j) == IF j.is_array THEN ScanFrom(j.nodes, 1) ELSE FALSE

\* Variant of HandleWebhook that remembers the payload it handled last and
\* acknowledges a repeated one without looking at it further.
HandleWebhook_dedupe(p) ==
    /\ started
    /\ pc \in {"idle", "responded", "panicked"}
    /\ payload' = p
    /\ json' = NoJson
    /\ is_done' = FALSE
    /\ issue_json' = NoIssueJson
    /\ outcomes' = <<>>
    /\ IF env_var(GITHUB_TOKEN) = None
       THEN /\ Panic
            /\ github_token' = ""
            /\ calls' = <<>>
       ELSE /\ github_token' = env_var(GITHUB_TOKEN)[1]
            /\ IF IsReorderedWithNodeId(p) /\ ~(pc = "responded" /\ payload = p)
               THEN /\ calls' = << GraphqlCall(prepare_graphql_query(Symbols(node_id_str(p))),
                                               env_var(GITHUB_TOKEN)[1]) >>
                    /\ pc' = "await_first"
                    /\ reply' = NoReply
               ELSE /\ calls' = <<>>
                    /\ ReturnOk
    /\ served' = (pc # "idle")
    /\ UNCHANGED <<started, GITHUB_TOKEN, tasks, qb>>

\* Lines 123-138: from the entry of handle_webhook to its first await on
\* send_graphql_request, or to its end.
HandleWebhook(p) ==
    /\ started
    /\ pc \in {"idle", "responded", "panicked"}
    /\ payload' = p
    /\ json' = NoJson
    /\ is_done' = FALSE
    /\ issue_json' = NoIssueJson
    /\ outcomes' = <<>>
    /\ IF env_var(GITHUB_TOKEN) = None
       THEN /\ Panic
            /\ github_token' = ""
            /\ calls' = <<>>
       ELSE /\ github_token' = env_var(GITHUB_TOKEN)[1]
            /\ IF IsReorderedWithNodeId(p)
               THEN /\ calls' = << GraphqlCall(prepare_graphql_query(Symbols(node_id_str(p))),
                                               env_var(GITHUB_TOKEN)[1]) >>
                    /\ pc' = "await_first"
                    /\ reply' = NoReply
               ELSE /\ calls' = <<>>
                    /\ ReturnOk
    /\ served' = (pc # "idle")
    /\ UNCHANGED <<started, GITHUB_TOKEN, tasks, qb>>

\* Line 159: the linked content's identifier.
issue_id(j) == as_str(j.content_id)

\* Lines 138-162 and 214-224: the first request's result arrives; the handler
\* runs to its second await or to its end.
FirstResponse(res) ==
    /\ pc = "await_first"
    /\ outcomes' = Append(outcomes, IF res.ok THEN "ok" ELSE "err")
    /\ IF res.ok
       THEN /\ json' = res.value
            /\ is_done' = ComputeIsDone(res.value)
            /\ IF ComputeIsDone(res.value) /\ issue_id(res.value) # None
               THEN /\ calls' = Append(calls,
                         GraphqlCall(prepare_issue_number_query(Symbols(issue_id(res.value)[1])),
                                     github_token))
                    /\ pc' = "await_second"
                    /\ reply' = NoReply
               ELSE /\ calls' = calls
                    /\ ReturnOk
       ELSE /\ UNCHANGED <<json, is_done, calls>>
            /\ ErrArm
    /\ UNCHANGED <<started, GITHUB_TOKEN, payload, github_token, issue_json,
                   served, tasks, qb>>

\* Variant of MutationTarget that passes owner and repository in the wrong
\* order.
MutationTarget_swapped(j, ij) ==
    IF /\ as_u64(ij.number) # None
       /\ as_str(j.repo_name) # None
       /\ as_str(j.owner_login) # None
    THEN Some([owner |-> as_str(j.repo_name)[1],
               repo |-> as_str(j.owner_login)[1],
               number |-> as_u64(ij.number)[1]])
    ELSE None

\* Variant of MutationTarget that defaults a missing owner login.
MutationTarget_defaultOwner(j, ij) ==
    IF /\ as_u64(ij.number) # None
       /\ as_str(j.repo_name) # None
    THEN Some([owner |-> IF as_str(j.owner_login) # None
                         THEN as_str(j.owner_login)[1] ELSE "",
               repo |-> as_str(j.repo_name)[1],
               number |-> as_u64(ij.number)[1]])
    ELSE None

\* Lines 169-181: the target of the mutation, when every part is there.
MutationTarget(j, ij) ==
    IF /\ as_u64(ij.number) # None
       /\ as_str(j.repo_name) # None
       /\ as_str(j.owner_login) # None
    THEN Some([owner |-> as_str(j.owner_login)[1],
               repo |-> as_str(j.repo_name)[1],
               number |-> as_u64(ij.number)[1]])
    ELSE None

\* Lines 162-213: the second request's result arrives; the handler runs to
\* the await on the octocrab update request or to its end.
SecondResponse(res) ==
    /\ pc = "await_second"
    /\ outcomes' = Append(outcomes, IF res.ok THEN "ok" ELSE "err")
    /\ IF res.ok
       THEN /\ issue_json' = res.value
            /\ IF MutationTarget(json, res.value) # None
               THEN /\ calls' = Append(calls,
                         MutationCall(MutationTarget(json, res.value)[1].owner,
                                      MutationTarget(json, res.value)[1].repo,
                                      MutationTarget(json, res.value)[1].number,
                                      github_token))
                    /\ pc' = "await_mutation"
                    /\ reply' = NoReply
               ELSE /\ calls' = calls
                    /\ ReturnOk
       ELSE /\ UNCHANGED <<issue_json, calls>>
            /\ ErrArm
    /\ UNCHANGED <<started, GITHUB_TOKEN, payload, github_token, json, is_done,
                   served, tasks, qb>>

\* Variant of MutationResponse in which the handler is never resumed.
MutationResponse_stall(res) ==
    /\ pc = "await_mutation"
    /\ UNCHANGED vars

\* Lines 192-199 and 235: the update request's result arrives; unwrap panics
\* on Err, and any Ok value is dropped.
MutationResponse(res) ==
    /\ pc = "await_mutation"
    /\ outcomes' = Append(outcomes, res)
    /\ UnwrapSend(res)
    /\ UNCHANGED <<started, GITHUB_TOKEN, payload, github_token, json, is_done,
                   issue_json, calls, served, tasks, qb>>

\* ------------------------------------------------------- one invocation as a function
\* Lines 123-138: the locals of an invocation on payload p when the handler
\* reaches its first await or its end.
TaskEntry(env, p) ==
    IF env_var(env) = None
    THEN Task("panicked", p, "", NoJson, FALSE, NoIssueJson, << >>, << >>, NoReply)
    ELSE IF IsReorderedWithNodeId(p)
         THEN Task("await_first", p, env_var(env)[1], NoJson, FALSE, NoIssueJson,
                   << GraphqlCall(prepare_graphql_query(Symbols(node_id_str(p))),
                                  env_var(env)[1]) >>,
                   << >>, NoReply)
         ELSE Task("responded", p, env_var(env)[1], NoJson, FALSE, NoIssueJson,
                   << >>, << >>, Acknowledgment)

\* Lines 138-162 and 214-224: the locals after the first request's result.
TaskFirst(t, res) ==
    IF ~res.ok
    THEN [t EXCEPT !.outcomes = Append(@, "err"),
                   !.pc = "responded", !.reply = Acknowledgment]
    ELSE IF ComputeIsDone(res.value) /\ issue_id(res.value) # None
         THEN [t EXCEPT !.outcomes = Append(@, "ok"),
                        !.json = res.value,
                        !.is_done = TRUE,
                        !.calls = Append(@,
                            GraphqlCall(prepare_issue_number_query(
                                            Symbols(issue_id(res.value)[1])),
                                        t.github_token)),
                        !.pc = "await_second"]
         ELSE [t EXCEPT !.outcomes = Append(@, "ok"),
                        !.json = res.value,
                        !.is_done = ComputeIsDone(res.value),
                        !.pc = "responded", !.reply = Acknowledgment]

\* Lines 162-213: the locals after the second request's result.
TaskSecond(t, res) ==
    IF ~res.ok
    THEN [t EXCEPT !.outcomes = Append(@, "err"),
                   !.pc = "responded", !.reply = Acknowledgment]
    ELSE IF MutationTarget(t.json, res.value) # None
         THEN [t EXCEPT !.outcomes = Append(@, "ok"),
                        !.issue_json = res.value,
                        !.calls = Append(@,
                            MutationCall(MutationTarget(t.json, res.value)[1].owner,
                                         MutationTarget(t.json, res.value)[1].repo,
                                         MutationTarget(t.json, res.value)[1].number,
                                         t.github_token)),
                        !.pc = "await_mutation"]
         ELSE [t EXCEPT !.outcomes = Append(@, "ok"),
                        !.issue_json = res.value,
                        !.pc = "responded", !.reply = Acknowledgment]

\* Lines 192-199 and 235: the locals after the update request's result.
TaskMutation(t, res) ==
    IF res = "err"
    THEN [t EXCEPT !.outcomes = Append(@, res), !.pc = "panicked"]
    ELSE [t EXCEPT !.outcomes = Append(@, res),
                   !.pc = "responded", !.reply = Acknowledgment]

\* The result with which the n-th call came back, from what the invocation
\* kept of it.
ResultSeen(outs, j, ij, n) ==
    IF n = 1 THEN (IF outs[1] = "ok" THEN Ok(j) ELSE Err(NoJson))
    ELSE IF n = 2 THEN (IF outs[2] = "ok" THEN Ok(ij) ELSE Err(NoIssueJson))
    ELSE outs[3]

\* handle_webhook run on its own: the locals of an invocation on payload p
\* under environment env whose calls came back with outs, j and ij.
Alone(env, p, outs, j, ij) ==
    IF Len(outs) = 0 THEN TaskEntry(env, p)
    ELSE IF Len(outs) = 1 THEN TaskFirst(TaskEntry(env, p), ResultSeen(outs, j, ij, 1))
    ELSE IF Len(outs) = 2
         THEN TaskSecond(TaskFirst(TaskEntry(env, p), ResultSeen(outs, j, ij, 1)),
                         ResultSeen(outs, j, ij, 2))
         ELSE TaskMutation(
                  TaskSecond(TaskFirst(TaskEntry(env, p), ResultSeen(outs, j, ij, 1)),
                             ResultSeen(outs, j, ij, 2)),
                  ResultSeen(outs, j, ij, 3))

Next ==
    \/ Main
    \/ \E p \in Payloads : HandleWebhook(p)
    \/ pc = "await_first" /\ \E v \in FieldValuesResponses : FirstResponse(Ok(v))
    \/ FirstResponse(Err(NoJson))
    \/ \E v \in IssueNumberResponses : SecondResponse(Ok(v))
    \/ SecondResponse(Err(NoIssueJson))
    \/ \E res \in MutationResults : MutationResponse(res)

Spec == Init /\ [][Next]_vars



\* ------------------------------------------------------- concurrent requests
\* warp runs handle_webhook once per request, each invocation with locals of
\* its own; a step of invocation r leaves it with locals t. A panic unwinds
\* the task of that request only.
Resume_abort(ts, r, t) ==
    IF t.pc = "panicked"
    THEN [s \in Requests |->
            IF s = r THEN t
            ELSE IF ts[s].pc \in {"await_first", "await_second", "await_mutation"}
                 THEN [ts[s] EXCEPT !.pc = "panicked"]
                 ELSE ts[s]]
    ELSE [ts EXCEPT ![r] = t]

Resume(ts, r, t) == [ts EXCEPT ![r] = t]

\* The payloads and remote results the concurrent requests are run on: an
\* ignored and a reordered event; a failure, a Done item with and without
\* owner login, and an item in progress; a failure, a number and none.
ConcPayloads ==
    { [action |-> JStr("edited"), item |-> "missing", node_id |-> JMissing],
      [action |-> JStr("reordered"), item |-> "object", node_id |-> JStr("PVTI_1")] }
ConcFirstResults ==
    { Err(NoJson),
      Ok([is_array |-> TRUE, nodes |-> << SelectNode("Status", "Done") >>,
          content_id |-> JStr("I_1"), repo_name |-> JStr("card-mover"),
          owner_login |-> JStr("octo")]),
      Ok([is_array |-> TRUE, nodes |-> << SelectNode("Status", "Done") >>,
          content_id |-> JStr("I_1"), repo_name |-> JStr("card-mover"),
          owner_login |-> JNull]),
      Ok([is_array |-> TRUE, nodes |-> << SelectNode("Status", "In Progress") >>,
          content_id |-> JStr("I_1"), repo_name |-> JStr("card-mover"),
          owner_login |-> JStr("octo")]) }
ConcSecondResults ==
    { Err(NoIssueJson), Ok([number |-> JNum(42)]), Ok([number |-> JNull]) }

\* Request r arrives and its invocation runs to its first await or its end.
ConcHandleWebhook(r, p) ==
    /\ started
    /\ tasks[r].pc = "idle"
    /\ tasks' = Resume(tasks, r, TaskEntry(GITHUB_TOKEN, p))
    /\ UNCHANGED <<started, GITHUB_TOKEN, pc, payload, github_token, json, is_done,
                   issue_json, calls, outcomes, reply, served, qb>>

\* The first request of invocation r comes back.
ConcFirstResponse(r, res) ==
    /\ tasks[r].pc = "await_first"
    /\ tasks' = Resume(tasks, r, TaskFirst(tasks[r], res))
    /\ UNCHANGED <<started, GITHUB_TOKEN, pc, payload, github_token, json, is_done,
                   issue_json, calls, outcomes, reply, served, qb>>

\* The second request of invocation r comes back.
ConcSecondResponse(r, res) ==
    /\ tasks[r].pc = "await_second"
    /\ tasks' = Resume(tasks, r, TaskSecond(tasks[r], res))
    /\ UNCHANGED <<started, GITHUB_TOKEN, pc, payload, github_token, json, is_done,
                   issue_json, calls, outcomes, reply, served, qb>>

\* The update request of invocation r comes back.
ConcMutationResponse(r, res) ==
    /\ tasks[r].pc = "await_mutation"
    /\ tasks' = Resume(tasks, r, TaskMutation(tasks[r], res))
    /\ UNCHANGED <<started, GITHUB_TOKEN, pc, payload, github_token, json, is_done,
                   issue_json, calls, outcomes, reply, served, qb>>

NextConc ==
    \/ Main
    \/ \E r \in Requests, p \in ConcPayloads : ConcHandleWebhook(r, p)
    \/ \E r \in Requests, res \in ConcFirstResults : ConcFirstResponse(r, res)
    \/ \E r \in Requests, res \in ConcSecondResults : ConcSecondResponse(r, res)
    \/ \E r \in Requests, res \in MutationResults : ConcMutationResponse(r, res)

SpecConc == Init /\ [][NextConc]_vars

\* ------------------------------------------------------- every call returns
\* The field-values responses the handler is run on here: every node list,
\* with the linked content complete or absent.
LiveFieldValuesResponses ==
    { v \in FieldValuesResponses :
        \/ v.content_id = JStr("I_1") /\ v.repo_name # JNull /\ v.owner_login # JNull
        \/ v.content_id = JNull /\ v.repo_name = JNull /\ v.owner_login = JNull }

\* A remote call the current invocation awaits returns, with a result or an
\* error.
RemoteReturns ==
    \/ pc = "await_first" /\ \E v \in LiveFieldValuesResponses : FirstResponse(Ok(v))
    \/ FirstResponse(Err(NoJson))
    \/ \E v \in IssueNumberResponses : SecondResponse(Ok(v))
    \/ SecondResponse(Err(NoIssueJson))
    \/ \E res \in MutationResults : MutationResponse(res)

\* The handler on an ignored and on a reordered event, under the proviso that
\* each remote call eventually returns.
NextLive ==
    \/ Main
    \/ \E p \in ConcPayloads : HandleWebhook(p)
    \/ RemoteReturns

SpecLive == Init /\ [][NextLive]_vars /\ WF_vars(RemoteReturns)

\* ------------------------------------------------------- the builders alone
\* The words an identifier is made of: plain ones, words of the templates, and
\* the marks the templates use around the placeholder.
IdSymbols == {"ABC123", "id", "nodeId", "issueId", "$", "\""}
Identifiers == UNION { [1..n -> IdSymbols] : n \in 0..MaxIdLen }

InitQuery ==
    /\ InitHandler
    /\ tasks = [r \in Requests |-> TaskIdle]
    /\ qb \in { [id |-> x, kind |-> "none", doc |-> << >>] : x \in Identifiers }

\* prepare_graphql_query applied to the identifier.
BuildFieldValuesQuery ==
    /\ qb.kind # "field_values"
    /\ qb' = [qb EXCEPT !.kind = "field_values", !.doc = prepare_graphql_query(qb.id)]
    /\ UNCHANGED <<started, GITHUB_TOKEN, pc, payload, github_token, json, is_done,
                   issue_json, calls, outcomes, reply, served, tasks>>

\* prepare_issue_number_query applied to the identifier.
BuildIssueNumberQuery ==
    /\ qb.kind # "issue_number"
    /\ qb' = [qb EXCEPT !.kind = "issue_number",
                        !.doc = prepare_issue_number_query(qb.id)]
    /\ UNCHANGED <<started, GITHUB_TOKEN, pc, payload, github_token, json, is_done,
                   issue_json, calls, outcomes, reply, served, tasks>>

NextQuery == BuildFieldValuesQuery \/ BuildIssueNumberQuery

SpecQuery == InitQuery /\ [][NextQuery]_vars

TypeOK ==
    /\ started \in BOOLEAN
    /\ GITHUB_TOKEN \in TokenEnvs
    /\ pc \in {"idle", "await_first", "await_second", "await_mutation",
               "responded", "panicked"}
    /\ payload \in Payloads \cup {NoPayload}
    /\ json \in FieldValuesResponses
    /\ is_done \in BOOLEAN
    /\ issue_json \in IssueNumberResponses
    /\ reply \in {NoReply, Acknowledgment}
    /\ Len(calls) <= 3
    /\ Len(outcomes) <= Len(calls)
    /\ github_token \in {"", "ghp_tok"}
    /\ served \in BOOLEAN
    /\ tasks = [r \in Requests |-> TaskIdle]
    /\ qb = QbIdle

\* ------------------------------------------------------- properties
\* The current invocation has ended: it returned or it panicked.
Ended == pc \in {"responded", "panicked"}

\* The invocation obtained a field-values response.
FirstOk == Len(outcomes) >= 1 /\ outcomes[1] = "ok"

\* The invocation obtained an issue-number response.
SecondOk == Len(outcomes) >= 2 /\ outcomes[2] = "ok"

\* Positions of the close-issue requests among the calls sent.
MutationCalls == {i \in 1..Len(calls) : calls[i].kind = "mutation"}

\* Positions of the GraphQL requests among the calls sent.
GraphqlCalls == {i \in 1..Len(calls) : calls[i].kind = "graphql"}

IsString(v) == v.tag = "string"
IsUnsigned(v) == v.tag = "number" /\ v.num >= 0

\* The response carries a node whose field name is "Status" and whose
\* single-select value is "Done".
HasStatusDoneNode(j) ==
    /\ j.is_array
    /\ \E i \in 1..Len(j.nodes) :
         /\ j.nodes[i].field_name = JStr("Status")
         /\ j.nodes[i].name = JStr("Done")

\* C1: every invocation that has ended, whatever the payload, the token and
\* the results of the remote calls, answered 200 "Webhook received".
C1_AlwaysAcknowledged == Ended => reply = Acknowledgment

\* C2 as stated: once a field-values response was obtained and the handler is
\* past its decision, a close-issue request has been sent if and only if the
\* response has a Status = Done node.
C2_MutationIffStatusDone ==
    (FirstOk /\ pc \in {"await_mutation", "responded", "panicked"})
        => (MutationCalls # {} <=> HasStatusDoneNode(json))

\* Everything the steps after the Done decision require.
LaterStepsPass ==
    /\ IsString(json.content_id)
    /\ SecondOk
    /\ IsUnsigned(issue_json.number)
    /\ IsString(json.repo_name)
    /\ IsString(json.owner_login)

\* C2 amended: a close-issue request is sent only if the field-values response
\* has a Status = Done node, and, when it has one, the request is sent exactly
\* when the content id, the second query, its number and the repository name
\* and owner are all there.
C2_MutationOnlyIfStatusDone ==
    /\ MutationCalls # {} => (FirstOk /\ HasStatusDoneNode(json))
    /\ (FirstOk /\ HasStatusDoneNode(json)
          /\ pc \in {"await_mutation", "responded", "panicked"})
        => (MutationCalls # {} <=> LaterStepsPass)

C2_Witness ==
    /\ pc = "responded"
    /\ MutationCalls # {}
    /\ HasStatusDoneNode(json)
    /\ Len(json.nodes) = 2

\* The payloads the receiver ignores: no action, another action, or no
\* projects_v2_item.node_id.
IgnoredPayload(p) ==
    \/ p.action.tag = "missing"
    \/ p.action # JStr("reordered")
    \/ p.item # "object"
    \/ p.node_id.tag = "missing"

\* C3: an invocation on a payload without action, with another action, or
\* without projects_v2_item.node_id makes no remote call and answers 200
\* "Webhook received".
C3_IgnoredPayloadAcknowledged ==
    (pc # "idle" /\ IgnoredPayload(payload))
        => (calls = <<>> /\ pc = "responded" /\ reply = Acknowledgment)

\* C4: every close-issue request sent targets the owner login and repository
\* name of the first response and the number of the second, with state closed;
\* and when the first response has a Status = Done node and string content id,
\* repository name and owner login, and the second response an unsigned
\* number, exactly one such request is sent.
C4_ExactTarget ==
    /\ \A i \in MutationCalls :
         /\ calls[i].owner = json.owner_login.str
         /\ calls[i].repo = json.repo_name.str
         /\ calls[i].number = issue_json.number.num
         /\ calls[i].state = "closed"
         /\ IsString(json.owner_login) /\ IsString(json.repo_name)
         /\ IsUnsigned(issue_json.number)
    /\ (FirstOk /\ HasStatusDoneNode(json) /\ LaterStepsPass)
         => Cardinality(MutationCalls) = 1

C4_Witness ==
    /\ pc = "await_mutation"
    /\ Cardinality(MutationCalls) = 1
    /\ calls[3].owner = "octo"
    /\ calls[3].repo = "card-mover"
    /\ calls[3].number = 42

\* C5: when the field-values response has no Status = Done node, the
\* invocation has sent the first query only, and has returned the
\* acknowledgment.
C5_NotDoneStops ==
    (FirstOk /\ ~HasStatusDoneNode(json))
        => /\ Len(calls) = 1
           /\ calls[1].kind = "graphql"
           /\ pc = "responded"
           /\ reply = Acknowledgment

C5_Witness ==
    /\ FirstOk
    /\ json.is_array
    /\ Len(json.nodes) = 2
    /\ json.nodes[1] = SelectNode("Status", "In Progress")
    /\ json.nodes[2] = SelectNode("Priority", "Done")
    /\ pc = "responded"

\* A field required after the Done decision is absent.
RequiredFieldAbsent ==
    \/ ~IsString(json.content_id)
    \/ ~IsString(json.repo_name)
    \/ ~IsString(json.owner_login)
    \/ (SecondOk /\ ~IsUnsigned(issue_json.number))

\* C6: with a Status = Done node and a required field absent, no close-issue
\* request is ever sent, the handler does not panic, it stops at once when the
\* content id is absent, and it returns the acknowledgment at the latest when
\* the second response has arrived.
C6_MissingFieldStops ==
    (FirstOk /\ HasStatusDoneNode(json) /\ RequiredFieldAbsent)
        => /\ MutationCalls = {}
           /\ pc \in {"await_second", "responded"}
           /\ pc = "responded" => reply = Acknowledgment
           /\ ~IsString(json.content_id) => (pc = "responded" /\ Len(calls) = 1)
           /\ Len(outcomes) >= 2 => pc = "responded"

C6_Witness ==
    /\ FirstOk
    /\ HasStatusDoneNode(json)
    /\ IsString(json.content_id)
    /\ IsString(json.repo_name)
    /\ ~IsString(json.owner_login)
    /\ SecondOk
    /\ issue_json.number = JNum(42)
    /\ pc = "responded"
    /\ reply = Acknowledgment

\* C7: after a failure of the first GraphQL call nothing else has been sent,
\* after a failure of the second no close-issue request has been sent, and in
\* both cases the handler has returned the acknowledgment.
C7_TransportFailureCaught ==
    /\ (Len(outcomes) >= 1 /\ outcomes[1] = "err")
         => (Len(calls) = 1 /\ pc = "responded" /\ reply = Acknowledgment)
    /\ (Len(outcomes) >= 2 /\ outcomes[2] = "err")
         => /\ Len(calls) = 2
            /\ MutationCalls = {}
            /\ pc = "responded"
            /\ reply = Acknowledgment

C7_Witness ==
    /\ Len(outcomes) = 2
    /\ outcomes[2] = "err"
    /\ IsString(json.repo_name)
    /\ IsString(json.owner_login)
    /\ pc = "responded"

\* The payload is a reordered event whose node_id is present but no string.
NonStringNodeId(p) ==
    /\ p.action = JStr("reordered")
    /\ p.item = "object"
    /\ p.node_id.tag \notin {"missing", "string"}

\* C8: with the token set, an invocation on a reordered event whose node_id is
\* present but not a string ends as for a missing node_id: no call is sent and
\* the acknowledgment is returned.
C8_NonStringNodeIdIgnored ==
    (pc # "idle" /\ GITHUB_TOKEN.state = "set" /\ NonStringNodeId(payload))
        => (calls = <<>> /\ pc = "responded" /\ reply = Acknowledgment)

\* C9: once the close-issue request has come back, the handler has panicked
\* without a reply if the request failed, and has returned the acknowledgment
\* if it succeeded, whatever it returned.
C9_MutationFailureUncaught ==
    Len(outcomes) = 3
        => /\ calls[3].kind = "mutation"
           /\ IF outcomes[3] = "err"
              THEN pc = "panicked" /\ reply = NoReply
              ELSE pc = "responded" /\ reply = Acknowledgment

C9_Witness ==
    /\ Len(outcomes) = 3
    /\ outcomes[3] = "err"
    /\ pc = "panicked"

\* C10: with GITHUB_TOKEN unset the server still starts, and every invocation,
\* whatever its payload, has panicked with no remote call sent and no reply.
C10_UnsetTokenCrashes ==
    GITHUB_TOKEN.state = "unset"
        => /\ ~started => ENABLED Main
           /\ calls = <<>>
           /\ reply = NoReply
           /\ pc \in {"idle", "panicked"}

C10_Witness ==
    /\ GITHUB_TOKEN.state = "unset"
    /\ started
    /\ pc = "panicked"
    /\ payload.action = JStr("edited")

\* ------------------------------------------------------- builder properties
\* The text x occurs in doc.
Occurs(x, doc) == \E i \in 1..Len(doc) : MatchesAt(doc, x, i)

\* The number of places where the non-empty text x occurs in doc.
Count(x, doc) == Cardinality({i \in 1..Len(doc) : MatchesAt(doc, x, i)})

\* `node(id: "X")`.
NodeArgument(x) == << "node", "(", "id", ":", "\"" >> \o x \o << "\"", ")" >>

\* The template and the placeholder of the builder that made qb.doc.
QbTemplate == IF qb.kind = "field_values" THEN FieldValuesTemplate ELSE IssueNumberTemplate
QbPlaceholder == IF qb.kind = "field_values" THEN Placeholder1 ELSE Placeholder2

\* Where the templates start `node(id: "..."` and where the identifier goes.
NodeAt == 3
IdAt == 8

\* The fixed text of the template before and after its placeholder.
QbPrefix == SubSeq(QbTemplate, 1, IdAt - 1)
QbSuffix == SubSeq(QbTemplate, IdAt + Len(QbPlaceholder), Len(QbTemplate))

\* C13 as stated: for every identifier X the document a builder returns has
\* node(id: "X") at the substitution point and no occurrence of the builder's
\* placeholder.
C13_NoPlaceholderLeft ==
    qb.kind # "none"
        => /\ MatchesAt(qb.doc, NodeArgument(qb.id), NodeAt)
           /\ ~Occurs(QbPlaceholder, qb.doc)

\* C13 amended: the document has node(id: "X") at the substitution point for
\* every X, and it has no occurrence of the placeholder when X itself has
\* none.
C13_NoPlaceholderLeftUnlessInId ==
    qb.kind # "none"
        => /\ MatchesAt(qb.doc, NodeArgument(qb.id), NodeAt)
           /\ Occurs(QbPlaceholder, qb.doc) <=> Occurs(QbPlaceholder, qb.id)

C13_Witness ==
    /\ qb.kind = "field_values"
    /\ qb.id = << "ABC123" >>
    /\ MatchesAt(qb.doc, NodeArgument(<< "ABC123" >>), NodeAt)
    /\ ~Occurs(Placeholder1, qb.doc)

\* The identifier is not empty and made of letters and digits only.
Alphanumeric(x) == x # << >> /\ \A i \in 1..Len(x) : x[i] \notin {"$", "\""}

\* C14 as stated: a non-empty alphanumeric identifier occurs in the document
\* exactly once, at the substitution point.
C14_IdentifierExactlyOnce ==
    (qb.kind # "none" /\ Alphanumeric(qb.id))
        => /\ MatchesAt(qb.doc, qb.id, IdAt)
           /\ Count(qb.id, qb.doc) = 1

\* C14 amended: the document is the template's fixed text with the identifier
\* put once in the place of the placeholder, so a non-empty alphanumeric
\* identifier occurs at the substitution point and, besides, exactly where the
\* fixed text before and after the placeholder has it: exactly once when the
\* fixed text does not contain it.
C14_IdentifierOnceBesideFixedText ==
    (qb.kind # "none" /\ Alphanumeric(qb.id))
        => /\ qb.doc = QbPrefix \o qb.id \o QbSuffix
           /\ MatchesAt(qb.doc, qb.id, IdAt)
           /\ Count(qb.id, qb.doc) = 1 + Count(qb.id, QbPrefix) + Count(qb.id, QbSuffix)
           /\ (~Occurs(qb.id, QbPrefix) /\ ~Occurs(qb.id, QbSuffix))
                => Count(qb.id, qb.doc) = 1

C14_Witness ==
    /\ qb.kind = "issue_number"
    /\ qb.id = << "ABC123", "nodeId" >>
    /\ Count(qb.id, qb.doc) = 1

\* ------------------------------------------------------- further handler properties
\* The fixed order of the remote calls of one invocation.
CallOrder == << "graphql", "graphql", "mutation" >>

\* C11: the calls an invocation has sent are a prefix of (field-values query,
\* issue-number query, close-issue mutation); each is sent only once the one
\* before it has come back successfully, and after a failure nothing is sent
\* and nothing is pending.
C11_CallsFormPrefix ==
    /\ Len(calls) <= Len(CallOrder)
    /\ \A i \in 1..Len(calls) : calls[i].kind = CallOrder[i]
    /\ Len(calls) >= 1 => Occurs(<< "fieldValues" >>, calls[1].query)
    /\ Len(calls) >= 2 => (FirstOk /\ Occurs(<< "number" >>, calls[2].query))
    /\ Len(calls) >= 3 => SecondOk
    /\ Len(outcomes) <= Len(calls)
    /\ Len(calls) <= Len(outcomes) + 1
    /\ \A i \in 1..Len(outcomes) :
         outcomes[i] = "err" => (Len(calls) = i /\ Len(outcomes) = i /\ Ended)

C11_Witness ==
    /\ Len(calls) = 3
    /\ Len(outcomes) = 3
    /\ pc = "responded"

\* C15: once the token is read, an invocation on a reordered event whose
\* node_id is present but no string has sent, as its first call, the
\* field-values query built for the empty identifier.
C15_EmptyNodeIdProceeds ==
    (pc # "idle" /\ GITHUB_TOKEN.state = "set" /\ NonStringNodeId(payload))
        => /\ Len(calls) >= 1
           /\ calls[1].kind = "graphql"
           /\ calls[1].token = GITHUB_TOKEN.value
           /\ MatchesAt(calls[1].query, NodeArgument(<< >>), NodeAt)
           /\ Len(calls[1].query) = Len(FieldValuesTemplate) - Len(Placeholder1)

C15_Witness ==
    /\ pc = "await_first"
    /\ payload.node_id = JNull
    /\ Len(calls) = 1

\* The value a node carries, whichever its variant.
NodeValue(n) ==
    IF n.text # JNull THEN n.text ELSE IF n.date # JNull THEN n.date ELSE n.name

\* C16 as stated: is_done is true exactly when some node of the list has
\* field name "Status" and, as its text, date or name, the value "Done".
C16_IsDoneAnyVariant ==
    FirstOk
        => (is_done <=>
              /\ json.is_array
              /\ \E i \in 1..Len(json.nodes) :
                   /\ json.nodes[i].field_name = JStr("Status")
                   /\ NodeValue(json.nodes[i]) = JStr("Done"))

\* C16 amended: is_done is true exactly when some node of the list, at any
\* position, has field name "Status" and `name` "Done"; an absent list gives
\* false.
C16_IsDoneSelectName == FirstOk => (is_done <=> HasStatusDoneNode(json))

C16_Witness ==
    /\ FirstOk
    /\ is_done
    /\ Len(json.nodes) = 2
    /\ json.nodes[1] = TextNode("Status", "Done")
    /\ json.nodes[2] = SelectNode("Status", "Done")

\* The locals of the current invocation.
Local ==
    Task(pc, payload, github_token, json, is_done, issue_json, calls, outcomes, reply)

\* C17: whatever invocations came before and however they ended, the calls
\* sent and the reply returned by the current invocation are those of the
\* handler run on its own on the same payload, token and remote results.
C17_NoStateRetained ==
    pc # "idle"
        => Local = Alone(GITHUB_TOKEN, payload, outcomes, json, issue_json)

C17_Witness ==
    /\ served
    /\ pc = "responded"
    /\ Len(calls) = 3
    /\ Len(outcomes) = 3

\* ------------------------------------------------------- concurrency property
\* The locals of a request are those of the handler run on its own on the
\* payload and the remote results that request has seen.
AsIfAlone(t) ==
    IF t.pc = "idle" THEN t = TaskIdle
    ELSE t = Alone(GITHUB_TOKEN, t.payload, t.outcomes, t.json, t.issue_json)

Awaiting == pc \in {"await_first", "await_second", "await_mutation"}

\* C18: provided each remote call eventually returns, an invocation that
\* awaits one eventually returns the acknowledgment or panics.
C18_InvocationFinishes == Awaiting ~> Ended

C18_Witness ==
    /\ Ended
    /\ Len(calls) = 3
    /\ Len(outcomes) = 3

====
